---- MODULE Spec2Model ----
(***************************************************************************)
(* A model of the code assembly engine (codex/dag.py) and of the recursive *)
(* decomposition driver (codex/develop/agent.py).                          *)
(*                                                                         *)
(* Python strings the code inspects character by character are sequences   *)
(* of one-character strings; source text is a sequence of lines, the form  *)
(* str.split("\n") gives it.                                               *)
(***************************************************************************)
EXTENDS Integers, Sequences, FiniteSets, TLC

VARIABLES
    graph,            \* the nx.DiGraph handed to add_node / compile_graph
    calls,            \* number of add_node calls that have changed the graph
    call,             \* <<>> or <<[node_name, node]>>: the latest add_node call
    ret,              \* how the last call ended: [op, status]
    fd,               \* <<>> or <<FunctionData>>: what compile_graph returned
    visited,          \* compile_graph: the nodes in nx.topological_sort order
    graph_script,     \* compile_graph: the emissions appended to graph_script
    python_file,      \* compile_graph: python_file, as its lines
    requirements,     \* compile_graph / generate_requirements_txt: the package list
    requirements_txt  \* generate_requirements_txt: the lines returned

dagVars == <<graph, calls, call, ret, fd, visited, graph_script, python_file,
             requirements, requirements_txt>>

VARIABLES
    file_content,     \* the source unit handed to the normalizer, as its lines
    normalized,       \* [ok, lines]: normalize(file_content)
    renormalized,     \* [ok, lines]: normalize(normalize(file_content))
    npc               \* "input", "once", "twice"

normVars == <<file_content, normalized, renormalized, npc>>

VARIABLES
    oracle,                   \* the kind of generation oracle behind DevelopAIBlock
    dev_pc,                   \* where develop_route stands
    stack,                    \* the frames of develop_route / recursive_create_function
    generated_function_defs,  \* agent.py 15: the module-level registry
    provided_functions,       \* the provided_functions of the latest oracle invocation
    invoked,                  \* the functions handed to the oracle so far
    declared,                 \* how many child functions the oracle has declared
    err,                      \* the exception develop_route ended with, or "none"
    tripped,                  \* <<>> or <<f>>: the call on which the depth guard tripped
    returned                  \* <<>> or <<f>>: what develop_route returned

devVars == <<oracle, dev_pc, stack, generated_function_defs, provided_functions,
             invoked, declared, err, tripped, returned>>

VARIABLES
    routes            \* two develop_route calls in one process: for each route its
                      \* [pc, stack, provided_functions, registered, declared, err]

routeVars == <<routes>>

VARIABLES
    param_type,       \* the value handed to Param.check_param_type, as its tokens
    validated         \* "pending", "accepted" (v returned) or "rejected" (ValueError)

paramVars == <<param_type, validated>>

vars == <<dagVars, normVars, devVars, routeVars, paramVars>>

\* the variables each specification leaves alone
exceptDag == <<normVars, devVars, routeVars, paramVars>>
exceptNorm == <<dagVars, devVars, routeVars, paramVars>>
exceptDev == <<dagVars, normVars, routeVars, paramVars>>
exceptRoutes == <<dagVars, normVars, paramVars, oracle, dev_pc, stack, provided_functions,
                  invoked, declared, err, tripped, returned>>
exceptParam == <<dagVars, normVars, devVars, routeVars>>

(***************************************************************************)
(* Bounds of the model.                                                    *)
(***************************************************************************)
MaxAdds == 3
MaxPackages == 3
MaxLines == 3
MaxChildren == 2
MaxDeclared == 6
MaxRouteDeclared == 3
MaxTagLen == 4

(***************************************************************************)
(* Generic helpers.                                                        *)
(***************************************************************************)
SeqsUpTo(S, n) == UNION { [1..k -> S] : k \in 0..n }

Range(s) == { s[i] : i \in DOMAIN s }

Contains(s, x) == \E i \in DOMAIN s : s[i] = x

RECURSIVE Flatten(_)
Flatten(ss) == IF ss = <<>> THEN <<>> ELSE Head(ss) \o Flatten(Tail(ss))

IndexOf(s, x) == CHOOSE i \in DOMAIN s : s[i] = x

(***************************************************************************)
(* Errors, named as the specification names them.                          *)
(***************************************************************************)
MissingDependency == "ValueError: missing input parameters"
NotADAG == "NetworkXError: Graph is not a Directed Acyclic Graph (DAG)"
UnparsableSource == "black.InvalidInput"
InvalidGraphShape == "InvalidGraphShape"
OK == "ok"

(***************************************************************************)
(* Parameters and nodes (codex.model.Node as add_node reads it).           *)
(***************************************************************************)
Param(n, t) == [name |-> n, param_type |-> t]

ParamId == Param(<<"i", "d">>, <<"i", "n", "t">>)
ParamXs == Param(<<"x", "s">>, <<"s", "t", "r">>)
ParamPool == { ParamId, ParamXs }

\* Input lists: none, one parameter, both, and one parameter declared twice.
InputLists == { <<>>, <<ParamId>>, <<ParamId, ParamXs>>, <<ParamId, ParamId>> }

\* Output lists: none, one parameter, both.
OutputLists == { <<>>, <<ParamId>>, <<ParamId, ParamXs>> }

Nodes == [input_params : InputLists, output_params : OutputLists]

\* Node names are word sequences: `"request" in node_name` is word membership.
NodeNames == { <<"request">>, <<"step">>, <<"response">> }

EmptyGraph == [order |-> <<>>, node |-> <<>>, edges |-> {}]

(***************************************************************************)
(* add_node (dag.py 15-55).                                                *)
(***************************************************************************)
\* f"{p.name}: {p.param_type}"
FormatKey(p) == p.name \o <<":", " ">> \o p.param_type

\* the list of needed keys; an absent or empty input_params gives the empty {}
InputParamsNeeded(node) ==
    [i \in DOMAIN node.input_params |-> FormatKey(node.input_params[i])]

\* a dict that keeps the value a key was first given
DictSetDefault(d, key, n) ==
    IF \E i \in DOMAIN d : d[i].key = key THEN d ELSE Append(d, [key |-> key, n |-> n])

\* providers[key] = n on an insertion-ordered dict, kept as a sequence of items
DictSet(d, key, n) ==
    IF \E i \in DOMAIN d : d[i].key = key
    THEN [i \in DOMAIN d |-> IF d[i].key = key THEN [key |-> key, n |-> n] ELSE d[i]]
    ELSE Append(d, [key |-> key, n |-> n])

\* every (vertex, output key) in the order the two nested loops visit them
OutputScan(g) ==
    Flatten([i \in DOMAIN g.order |->
        [j \in DOMAIN g.node[g.order[i]].output_params |->
            [n |-> g.order[i],
             key |-> FormatKey(g.node[g.order[i]].output_params[j])]]])

RECURSIVE ScanProviders(_, _, _)
ScanProviders(scan, needed, providers) ==
    IF scan = <<>> THEN providers
    ELSE ScanProviders(Tail(scan), needed,
            IF Contains(needed, Head(scan).key)
            THEN DictSet(providers, Head(scan).key, Head(scan).n)
            ELSE providers)

FindProviders(g, node) == ScanProviders(OutputScan(g), InputParamsNeeded(node), <<>>)

\* a check that only notices a providers dict left empty
MissingInputsWhenNoProvider(needed, providers) == Len(providers) = 0

\* the check of line 43
MissingInputs(needed, providers) == Len(needed) # Len(providers)

\* graph.add_node(node_name, node=node): a known name keeps its place
GraphAddNode(g, node_name, node) ==
    [g EXCEPT !.order = IF Contains(g.order, node_name) THEN @ ELSE Append(@, node_name),
              !.node = (node_name :> node) @@ @]

\* an edge from the vertex being inserted to its provider
GraphAddEdgeReversed(edges, u, v, c) ==
    { e \in edges : ~(e.src = v /\ e.dst = u) }
        \cup { [src |-> v, dst |-> u, connection_type |-> c] }

\* graph.add_edge(u, v, connection_type=c): a DiGraph holds one edge per (u, v)
GraphAddEdge(edges, u, v, c) ==
    { e \in edges : ~(e.src = u /\ e.dst = v) }
        \cup { [src |-> u, dst |-> v, connection_type |-> c] }

RECURSIVE ConnectProviders(_, _, _)
ConnectProviders(edges, providers, node_name) ==
    IF providers = <<>> THEN edges
    ELSE ConnectProviders(
            GraphAddEdge(edges, Head(providers).n, node_name, Head(providers).key[1]),
            Tail(providers), node_name)

\* the graph and the outcome of add_node(g, node_name, node)
AddNodeResult(g, node_name, node) ==
    IF g.order = <<>>
    THEN [graph |-> GraphAddNode(g, node_name, node), status |-> OK]
    ELSE LET needed == InputParamsNeeded(node)
             providers == FindProviders(g, node)
         IN  IF MissingInputs(needed, providers)
             THEN [graph |-> g, status |-> MissingDependency]
             ELSE [graph |-> [GraphAddNode(g, node_name, node) EXCEPT
                                !.edges = ConnectProviders(@, providers, node_name)],
                   status |-> OK]

(***************************************************************************)
(* Source text.  A line is [k, m, items]:                                  *)
(*   import  "import m"               from  "from m import i1, i2"         *)
(*   from with items <<"(">>  "from m import ("                            *)
(*   item    "    m,"                 close ")"                            *)
(*   blank   ""                       stmt  any other valid statement      *)
(*   garbage a line no Python parser accepts                               *)
(***************************************************************************)
Line(k, m, items) == [k |-> k, m |-> m, items |-> items]
Blank == Line("blank", "", <<>>)
Imp(m) == Line("import", m, <<>>)
From(m, items) == Line("from", m, items)
FromOpen(m) == Line("from", m, <<"(">>)
Item(n) == Line("item", n, <<>>)
Close == Line("close", "", <<>>)
Stmt(s) == Line("stmt", s, <<>>)
Garbage == Line("garbage", "", <<>>)

\* the words of import lines, in the order Python compares their strings
LexOrder == <<"(", "a", "alpha", "b", "beta", "os">>
Rank(t) == IndexOf(LexOrder, t)

RECURSIVE SeqLess(_, _)
SeqLess(s, t) ==
    IF s = <<>> THEN t # <<>>
    ELSE IF t = <<>> THEN FALSE
    ELSE IF Head(s) # Head(t) THEN Rank(Head(s)) < Rank(Head(t))
    ELSE SeqLess(Tail(s), Tail(t))

\* str order of two import lines: "from ..." sorts before "import ..."
LineLess(a, b) ==
    IF a.k # b.k THEN a.k = "from"
    ELSE IF a.m # b.m THEN Rank(a.m) < Rank(b.m)
    ELSE SeqLess(a.items, b.items)

\* sorted(S): the i-th element has i - 1 elements of S before it
Sorted(S, Less(_, _)) ==
    [i \in 1..Cardinality(S) |->
        CHOOSE x \in S : Cardinality({ y \in S : Less(y, x) }) = i - 1]

NonEmpty(lines) == IF lines = <<>> THEN <<Blank>> ELSE lines

(***************************************************************************)
(* refactor_imports (dag.py 58-90), on file_content.split("\n").           *)
(***************************************************************************)
IsFromLine(l) == l.k = "from"
IsImportLine(l) == l.k = "import"
IsOtherLine(l) == ~IsFromLine(l) /\ ~IsImportLine(l)

\* one "from" line per module: the imported texts, sorted and joined by ", "
ConsolidatedFromImports(lines) ==
    { From(m, Flatten(Sorted({ l.items : l \in { x \in Range(lines) : IsFromLine(x) /\ x.m = m } },
                             SeqLess)))
      : m \in { l.m : l \in { x \in Range(lines) : IsFromLine(x) } } }

RefactorImports(lines) ==
    LET import_lines == { l \in Range(lines) : IsImportLine(l) }
        other_lines == SelectSeq(lines, IsOtherLine)
        all_imports == Sorted(import_lines \cup ConsolidatedFromImports(lines), LineLess)
    IN  NonEmpty(all_imports) \o <<Blank>> \o NonEmpty(other_lines)

(***************************************************************************)
(* format_and_sort_code (dag.py 93-100): isort.code, then black.format_str *)
(* with black.FileMode().  Both are libraries; what is kept of them is     *)
(* that black refuses text it cannot parse, that isort merges and sorts    *)
(* the leading import statements, and that black writes an import longer   *)
(* than its line length one name per line between parentheses.             *)
(***************************************************************************)
BlackLineLength == 88

TokenWidth(t) ==
    CASE t = "alpha" -> 40
      [] t = "beta" -> 41
      [] t = "os" -> 2
      [] OTHER -> 1

RECURSIVE SumWidth(_)
SumWidth(names) ==
    IF names = <<>> THEN 0 ELSE TokenWidth(Head(names)) + SumWidth(Tail(names))

\* len("from m import n1, n2")
FromWidth(m, names) == 5 + TokenWidth(m) + 8 + SumWidth(names) + 2 * (Len(names) - 1)

Statement(t, m, names) == [t |-> t, m |-> m, names |-> names]
ParseError == [ok |-> FALSE, stmts |-> <<>>]

\* the index of the ")" that closes a "from m import (", 0 when there is none
CloseIndex(rest) ==
    LET closes == { i \in DOMAIN rest :
                      /\ rest[i].k = "close"
                      /\ \A j \in 1..(i - 1) : rest[j].k \in {"item", "blank"}
                      /\ \E j \in 1..(i - 1) : rest[j].k = "item" }
    IN  IF closes = {} THEN 0 ELSE CHOOSE i \in closes : TRUE

ItemNames(ls) == LET its == SelectSeq(ls, LAMBDA l : l.k = "item")
                 IN  [i \in DOMAIN its |-> its[i].m]

RECURSIVE ParseStmts(_)
ParseStmts(lines) ==
    IF lines = <<>> THEN [ok |-> TRUE, stmts |-> <<>>]
    ELSE LET h == Head(lines)
             then(stmt, rest) ==
                 LET p == ParseStmts(rest)
                 IN  IF p.ok THEN [ok |-> TRUE, stmts |-> <<stmt>> \o p.stmts] ELSE ParseError
         IN  CASE h.k = "blank" -> ParseStmts(Tail(lines))
               [] h.k = "import" -> then(Statement("import", h.m, <<>>), Tail(lines))
               [] h.k = "stmt" -> then(Statement("stmt", h.m, h.items), Tail(lines))
               [] h.k = "from" /\ h.items = <<"(">> ->
                    LET c == CloseIndex(Tail(lines))
                    IN  IF c = 0 THEN ParseError
                        ELSE then(Statement("from", h.m,
                                            ItemNames(SubSeq(Tail(lines), 1, c - 1))),
                                  SubSeq(Tail(lines), c + 1, Len(Tail(lines))))
               [] h.k = "from" /\ h.items # <<"(">> ->
                    IF h.items = <<>> \/ Contains(h.items, "(") THEN ParseError
                    ELSE then(Statement("from", h.m, h.items), Tail(lines))
               [] OTHER -> ParseError

IsImportStmt(s) == s.t \in {"import", "from"}

\* the length of the leading run of import statements
RECURSIVE LeadingImports(_)
LeadingImports(stmts) ==
    IF stmts = <<>> \/ ~IsImportStmt(Head(stmts)) THEN 0
    ELSE 1 + LeadingImports(Tail(stmts))

RankLess(a, b) == Rank(a) < Rank(b)

\* isort: plain imports first, then one "from" per module with its names sorted
SortImports(stmts) ==
    LET plain == { s.m : s \in { x \in Range(stmts) : x.t = "import" } }
        froms == { s.m : s \in { x \in Range(stmts) : x.t = "from" } }
        names(m) == UNION { Range(s.names) : s \in { x \in Range(stmts) : x.t = "from" /\ x.m = m } }
        ps == Sorted(plain, RankLess)
        fs == Sorted(froms, RankLess)
    IN  [i \in DOMAIN ps |-> Statement("import", ps[i], <<>>)]
        \o [i \in DOMAIN fs |-> Statement("from", fs[i], Sorted(names(fs[i]), RankLess))]

\* black: the lines of one statement
Render(s) ==
    CASE s.t = "import" -> <<Imp(s.m)>>
      [] s.t = "stmt" -> <<Line("stmt", s.m, s.names)>>
      [] s.t = "from" ->
            IF FromWidth(s.m, s.names) <= BlackLineLength
            THEN <<From(s.m, s.names)>>
            ELSE <<FromOpen(s.m)>> \o [i \in DOMAIN s.names |-> Item(s.names[i])] \o <<Close>>

RenderAll(stmts) == Flatten([i \in DOMAIN stmts |-> Render(stmts[i])])

\* [ok, lines]: the formatted text, or ok = FALSE when black raises InvalidInput
FormatAndSortCode(lines) ==
    LET p == ParseStmts(lines)
    IN  IF ~p.ok THEN [ok |-> FALSE, lines |-> <<>>]
        ELSE LET k == LeadingImports(p.stmts)
                 imports == RenderAll(SortImports(SubSeq(p.stmts, 1, k)))
                 body == RenderAll(SubSeq(p.stmts, k + 1, Len(p.stmts)))
             IN  [ok |-> TRUE,
                  lines |-> imports
                            \o (IF imports # <<>> /\ body # <<>> THEN <<Blank>> ELSE <<>>)
                            \o body \o <<Blank>>]

\* format_and_sort_code(refactor_imports(x)), as compile_graph composes them
Normalize(lines) == FormatAndSortCode(RefactorImports(lines))

(***************************************************************************)
(* generate_requirements_txt (dag.py 103-126).  A requirement line is the  *)
(* sequence of the strings the f-string joins.                             *)
(***************************************************************************)
Package(n, v, sp) == [package_name |-> n, version |-> v, specifier |-> sp]

\* "" stands for a missing (None or empty) version or specifier
PackageRefs ==
    { Package(n, v, sp) : n \in {"requests", "numpy"}, v \in {"", "2.0", "2.1"},
                          sp \in {"", "=="} }

PackageLists == SeqsUpTo(PackageRefs, MaxPackages)

\* the keys of resolved_packages, in insertion order
RECURSIVE PackageNames(_, _)
PackageNames(packages, seen) ==
    IF packages = <<>> THEN seen
    ELSE PackageNames(Tail(packages),
            IF Contains(seen, Head(packages).package_name) THEN seen
            ELSE Append(seen, Head(packages).package_name))

\* the pairs in the opposite order: the latest reference first
VersionsSpecifiersLatestFirst(packages, package) ==
    LET refs == SelectSeq(packages, LAMBDA r : r.package_name = package)
    IN  [i \in DOMAIN refs |-> <<refs[Len(refs) + 1 - i].version,
                                 refs[Len(refs) + 1 - i].specifier>>]

\* resolved_packages[package]: its (version, specifier) pairs in list order
VersionsSpecifiers(packages, package) ==
    LET refs == SelectSeq(packages, LAMBDA r : r.package_name = package)
    IN  [i \in DOMAIN refs |-> <<refs[i].version, refs[i].specifier>>]

Requirement(package, version, specifier) ==
    IF version # "" /\ specifier # "" THEN <<package, specifier, version>>
    ELSE IF version # "" THEN <<package, "==", version>>
    ELSE <<package>>

GenerateRequirementsTxt(packages) ==
    LET names == PackageNames(packages, <<>>)
    IN  [i \in DOMAIN names |->
            LET first == VersionsSpecifiers(packages, names[i])[1]
            IN  Requirement(names[i], first[1], first[2])]

(***************************************************************************)
(* compile_graph (dag.py 129-164).                                         *)
(***************************************************************************)
\* nx.topological_sort is a generator: it yields a vertex once every vertex
\* with an edge into it has been yielded, and raises NetworkXUnfeasible when
\* vertices remain and none can be yielded.  Which of the vertices that can be
\* yielded comes first depends on the networkx version: any of them.
RECURSIVE TopologicalSort(_, _)
TopologicalSort(g, yielded) ==
    LET ready == { n \in Range(g.order) \ Range(yielded) :
                     \A e \in g.edges : e.dst = n => Contains(yielded, e.src) }
    IN  IF ready = {} THEN { yielded }
        ELSE UNION { TopologicalSort(g, Append(yielded, n)) : n \in ready }

NetworkXUnfeasible == "NetworkXUnfeasible: Graph contains a cycle"

\* a check that lets every graph through
AnyGraphIsAcyclic(g) == TRUE

\* nx.is_directed_acyclic_graph: the sort runs to the last vertex
IsDirectedAcyclicGraph(g) ==
    \A order \in TopologicalSort(g, <<>>) : Len(order) = Len(g.order)

\* the branches of lines 144-149
IsStartName(node_name) == Contains(node_name, "request")
IsEndName(node_name) == ~IsStartName(node_name) /\ Contains(node_name, "response")
IsInteriorName(node_name) == ~IsStartName(node_name) /\ ~IsEndName(node_name)

\* ep.name.replace(" ", "_").replace("-", "_").replace("/", "").strip().lower()
\*     + "_request"
Replace(str, old, new) == [i \in DOMAIN str |-> IF str[i] = old THEN new ELSE str[i]]
Remove(str, old) == SelectSeq(str, LAMBDA c : c # old)
IsSpace(c) == c \in {" ", "\t", "\n"}

RECURSIVE LStrip(_)
LStrip(str) == IF str # <<>> /\ IsSpace(Head(str)) THEN LStrip(Tail(str)) ELSE str

RECURSIVE RStrip(_)
RStrip(str) ==
    IF str # <<>> /\ IsSpace(str[Len(str)]) THEN RStrip(SubSeq(str, 1, Len(str) - 1)) ELSE str

Strip(str) == RStrip(LStrip(str))

LowerChar(c) ==
    CASE c = "A" -> "a"
      [] c = "B" -> "b"
      [] c = "C" -> "c"
      [] OTHER -> c

Lower(str) == [i \in DOMAIN str |-> LowerChar(str[i])]

\* the same without the replacement of hyphens
FunctionNameKeepingHyphens(ep_name) ==
    Lower(Strip(Remove(Replace(ep_name, " ", "_"), "/")))
        \o <<"_", "r", "e", "q", "u", "e", "s", "t">>

FunctionName(ep_name) ==
    Lower(Strip(Remove(Replace(Replace(ep_name, " ", "_"), "-", "_"), "/")))
        \o <<"_", "r", "e", "q", "u", "e", "s", "t">>

ExecutionPaths ==
    { [name |-> <<"/", "A", " ", "b", "-", "C">>, endpoint_name |-> "/a"],
      [name |-> <<"\t", "a", "/", "B", " ">>, endpoint_name |-> "/b"] }

\* node.required_packages, the same for every node of one name
RequiredPackages(node_name) ==
    IF IsStartName(node_name) THEN <<Package("requests", "2.0", "==")>>
    ELSE IF IsEndName(node_name) THEN <<Package("numpy", "2.1", "")>>
    ELSE <<Package("requests", "2.1", "=="), Package("numpy", "", "")>>

\* node.code of an interior node: Python code, or text that is not Python
CodeFragments ==
    { <<Imp("os"), Stmt("def")>>,
      <<Imp("os"), FromOpen("a"), Item("alpha"), Close, Stmt("def")>>,
      <<Garbage>> }

\* what one visit appends to graph_script
Emission(node_name, function_name) ==
    IF IsStartName(node_name)
    THEN [kind |-> "request_to_code", node |-> node_name, name |-> function_name]
    ELSE IF IsEndName(node_name)
    THEN [kind |-> "response_to_code", node |-> node_name, name |-> <<>>]
    ELSE [kind |-> "to_code", node |-> node_name, name |-> <<>>]

\* python_file.split("\n") after line 157
NodeCode(order, code) ==
    Flatten([i \in DOMAIN order |->
                IF IsInteriorName(order[i]) THEN <<Blank>> \o code[order[i]] ELSE <<>>])

PythonFile(order, code, script) ==
    NodeCode(order, code)
    \o <<Blank>>
    \o [i \in DOMAIN script |-> Line("stmt", script[i].kind, script[i].node)]
    \o <<Blank>>

\* the locals and the outcome of one run of lines 133-164 over `order`
CompileRun(g, ep, order, code) ==
    LET function_name == FunctionName(ep.name)
        script == [i \in DOMAIN order |-> Emission(order[i], function_name)]
        file == PythonFile(order, code, script)
        reqs == Flatten([i \in DOMAIN order |-> RequiredPackages(order[i])])
        txt == GenerateRequirementsTxt(reqs)
        formatted == Normalize(file)
    IN  IF Len(order) < Len(g.order)
        THEN [visited |-> order, graph_script |-> script,
              python_file |-> NodeCode(order, code),
              requirements |-> reqs, requirements_txt |-> <<>>,
              status |-> NetworkXUnfeasible, fd |-> <<>>]
        ELSE [visited |-> order, graph_script |-> script, python_file |-> file,
              requirements |-> reqs, requirements_txt |-> txt,
              status |-> IF formatted.ok THEN OK ELSE UnparsableSource,
              fd |-> IF formatted.ok
                     THEN <<[function_name |-> function_name, code |-> formatted.lines,
                             requirements_txt |-> txt,
                             endpoint_name |-> ep.endpoint_name]>>
                     ELSE <<>>]

InteriorVertices(g) == { n \in Range(g.order) : IsInteriorName(n) }

CompileGraph(ep) ==
    /\ ret.status = OK
    /\ ret.op \in {"none", "add_node"}
    /\ UNCHANGED <<graph, calls>>
    /\ call' = <<>>
    /\ IF ~IsDirectedAcyclicGraph(graph)
       THEN /\ ret' = [op |-> "compile_graph", status |-> NotADAG]
            /\ fd' = <<>>
            /\ visited' = <<>>
            /\ graph_script' = <<>>
            /\ python_file' = <<>>
            /\ requirements' = <<>>
            /\ requirements_txt' = <<>>
       ELSE \E order \in TopologicalSort(graph, <<>>) :
            \E code \in [InteriorVertices(graph) -> CodeFragments] :
            \E run \in { CompileRun(graph, ep, order, code) } :
                /\ ret' = [op |-> "compile_graph", status |-> run.status]
                /\ fd' = run.fd
                /\ visited' = run.visited
                /\ graph_script' = run.graph_script
                /\ python_file' = run.python_file
                /\ requirements' = run.requirements
                /\ requirements_txt' = run.requirements_txt

\* generate_requirements_txt called on its own
GenerateRequirements(packages) ==
    /\ ret.op = "none"
    /\ UNCHANGED <<graph, calls, call, fd, visited, graph_script, python_file>>
    /\ requirements' = packages
    /\ requirements_txt' = GenerateRequirementsTxt(packages)
    /\ ret' = [op |-> "generate_requirements_txt", status |-> OK]

NoCompile ==
    /\ fd' = <<>>
    /\ visited' = <<>>
    /\ graph_script' = <<>>
    /\ python_file' = <<>>
    /\ requirements' = <<>>
    /\ requirements_txt' = <<>>

\* an exception ends the caller's use of the graph (it is left as it was)
AddNode(node_name, node) ==
    /\ calls < MaxAdds
    /\ ret.status = OK
    /\ ret.op \in {"none", "add_node"}
    /\ \E r \in { AddNodeResult(graph, node_name, node) } :
           /\ graph' = r.graph
           /\ calls' = IF r.status = OK THEN calls + 1 ELSE calls
           /\ ret' = [op |-> "add_node", status |-> r.status]
    /\ call' = <<[node_name |-> node_name, node |-> node]>>
    /\ NoCompile

DagInit ==
    /\ graph = EmptyGraph
    /\ calls = 0
    /\ call = <<>>
    /\ ret = [op |-> "none", status |-> OK]
    /\ fd = <<>>
    /\ visited = <<>>
    /\ graph_script = <<>>
    /\ python_file = <<>>
    /\ requirements = <<>>
    /\ requirements_txt = <<>>

(***************************************************************************)
(* The normalizer on its own: normalize(x), then normalize(normalize(x)).  *)
(***************************************************************************)
SourceLines ==
    { Imp("os"), From("a", <<"alpha">>), From("a", <<"alpha", "beta">>),
      From("b", <<"beta">>), FromOpen("a"), Item("alpha"), Close, Blank,
      Stmt("x = 1"), Garbage }

SourceUnits == UNION { [1..k -> SourceLines] : k \in 1..MaxLines }

NoResult == [ok |-> FALSE, lines |-> <<>>]

NormIdle ==
    /\ file_content = <<Blank>>
    /\ normalized = NoResult
    /\ renormalized = NoResult
    /\ npc = "input"

NormInit ==
    /\ file_content \in SourceUnits
    /\ normalized = NoResult
    /\ renormalized = NoResult
    /\ npc = "input"

NormalizeOnce ==
    /\ npc = "input"
    /\ normalized' = Normalize(file_content)
    /\ npc' = "once"
    /\ UNCHANGED <<file_content, renormalized>>

\* the exception of the inner call is the outcome of the outer one
NormalizeTwice ==
    /\ npc = "once"
    /\ renormalized' = IF normalized.ok THEN Normalize(normalized.lines) ELSE normalized
    /\ npc' = "twice"
    /\ UNCHANGED <<file_content, normalized>>

(***************************************************************************)
(* develop_route / recursive_create_function (agent.py 18-106).            *)
(* A function is named by its place in the decomposition tree: <<>> is the *)
(* route's top-level function, f \o <<i>> the i-th child declared by f.    *)
(***************************************************************************)
RECURSION_DEPTH_LIMIT == 3

RecursionLimitExceeded == "ValueError: Recursion depth exceeded"
OracleOutputInvalid == "OracleOutputInvalid"

OracleKinds == { "one_child", "any" }

TopFunction == <<>>

Frame(f, depth, todo) == [fn |-> f, depth |-> depth, todo |-> todo]

\* the frame of develop_route itself, whatever it has called
OutermostFrame == stack[1]

TopFrame == stack[Len(stack)]

\* children of the top-level function starting at depth 1
ChildDepthFromOne(frame) == frame.depth + 2

\* the depth develop_route (line 46, the default 0) and
\* recursive_create_function (line 103, depth + 1) pass down; develop_route's
\* own frame carries -1
ChildDepth(frame) == frame.depth + 1

\* a guard that lets every depth through
GuardNeverTrips(depth) == FALSE

\* line 73
DepthExceeded(depth) == depth > RECURSION_DEPTH_LIMIT

\* [f.function_template for f in generated_function_defs if f.name != name]
ProvidedFunctions(registry, f) == SelectSeq(registry, LAMBDA g : g # f)

\* DevelopAIBlock records the function it has materialized in the registry
Register(registry, f) == Append(registry, f)

\* ChildFunction of the function the oracle returned for f
Children(f, k) == [i \in 1..k |-> f \o <<i>>]

\* how many children the oracle may declare now
ChildCounts ==
    IF oracle = "one_child" THEN {1}
    ELSE { k \in 0..MaxChildren : declared + k <= MaxDeclared }

\* a loop that catches the exception of a child and goes on to the next one
CaughtByLoop(exception) == [pc |-> "loop", err |-> exception]

\* no frame catches: an exception raised under any await ends develop_route
Propagate(exception) == [pc |-> "raised", err |-> exception]

DevIdle ==
    /\ dev_pc = "idle"
    /\ stack = <<>>
    /\ generated_function_defs = <<>>
    /\ provided_functions = <<>>
    /\ invoked = {}
    /\ declared = 0
    /\ err = "none"
    /\ tripped = <<>>
    /\ returned = <<>>

\* lines 24-40: reset the registry, invoke the oracle for the route
DevelopRoute ==
    /\ dev_pc = "idle"
    /\ generated_function_defs' = <<>>
    /\ provided_functions' = ProvidedFunctions(<<>>, TopFunction)
    /\ invoked' = invoked \cup {TopFunction}
    /\ stack' = <<Frame(TopFunction, -1, <<>>)>>
    /\ dev_pc' = "await"
    /\ UNCHANGED <<oracle, declared, err, tripped, returned>>

\* the awaited invoke returns a function declaring k children
OracleReturns(k) ==
    /\ dev_pc = "await"
    /\ generated_function_defs' = Register(generated_function_defs, TopFrame.fn)
    /\ stack' = [stack EXCEPT ![Len(stack)].todo = Children(TopFrame.fn, k)]
    /\ declared' = declared + k
    /\ dev_pc' = "loop"
    /\ UNCHANGED <<oracle, provided_functions, invoked, err, tripped, returned>>

\* the awaited invoke raises
OracleFails ==
    /\ dev_pc = "await"
    /\ oracle = "any"
    /\ dev_pc' = Propagate(OracleOutputInvalid).pc
    /\ err' = Propagate(OracleOutputInvalid).err
    /\ UNCHANGED <<oracle, stack, generated_function_defs, provided_functions,
                   invoked, declared, tripped, returned>>

\* lines 43-46 / 99-104: the loop calls recursive_create_function for the next
\* child; lines 71-96: the guard, then the oracle invocation
CallChild ==
    /\ dev_pc = "loop"
    /\ TopFrame.todo # <<>>
    /\ LET child == Head(TopFrame.todo)
           depth == ChildDepth(TopFrame)
           rest == [stack EXCEPT ![Len(stack)].todo = Tail(@)]
       IN  IF DepthExceeded(depth)
           THEN /\ tripped' = <<child>>
                /\ stack' = rest
                /\ dev_pc' = Propagate(RecursionLimitExceeded).pc
                /\ err' = Propagate(RecursionLimitExceeded).err
                /\ UNCHANGED <<provided_functions, invoked>>
           ELSE /\ stack' = Append(rest, Frame(child, depth, <<>>))
                /\ provided_functions' = ProvidedFunctions(generated_function_defs, child)
                /\ invoked' = invoked \cup {child}
                /\ dev_pc' = "await"
                /\ UNCHANGED <<err, tripped>>
    /\ UNCHANGED <<oracle, generated_function_defs, declared, returned>>

\* lines 48 / 106: every child is done, the call returns its function
ReturnFunction ==
    /\ dev_pc = "loop"
    /\ TopFrame.todo = <<>>
    /\ stack' = SubSeq(stack, 1, Len(stack) - 1)
    /\ IF Len(stack) = 1
       THEN dev_pc' = "returned" /\ returned' = <<TopFrame.fn>>
       ELSE dev_pc' = "loop" /\ UNCHANGED returned
    /\ UNCHANGED <<oracle, generated_function_defs, provided_functions, invoked,
                   declared, err, tripped>>

(***************************************************************************)
(* Two develop_route calls of one process, interleaved at their awaits.    *)
(* They share the module-level generated_function_defs.  A function of a   *)
(* route is <<route>> \o its place in the route's decomposition tree.      *)
(***************************************************************************)
Routes == { "A", "B" }

RouteOf(f) == f[1]

RouteIdle ==
    [pc |-> "idle", stack |-> <<>>, provided_functions |-> <<>>, registered |-> {},
     declared |-> 0, err |-> "none"]

RoutesIdle == routes = [r \in Routes |-> RouteIdle]

RouteTopFrame(r) == routes[r].stack[Len(routes[r].stack)]

RouteChildCounts(r) ==
    { k \in 0..MaxChildren : routes[r].declared + k <= MaxRouteDeclared }

\* lines 24-40 for route r
RouteDevelopRoute(r) ==
    /\ routes[r].pc = "idle"
    /\ generated_function_defs' = <<>>
    /\ routes' = [routes EXCEPT ![r] =
                     [@ EXCEPT !.pc = "await",
                               !.stack = <<Frame(<<r>>, -1, <<>>)>>,
                               !.provided_functions = ProvidedFunctions(<<>>, <<r>>)]]

\* lines 43-46 / 99-104 and 71-96: the call for the next child, up to its await
RouteCallChild(rs, registry) ==
    LET top == rs.stack[Len(rs.stack)]
        child == Head(top.todo)
        depth == ChildDepth(top)
        rest == [rs.stack EXCEPT ![Len(rs.stack)].todo = Tail(@)]
    IN  IF DepthExceeded(depth)
        THEN [rs EXCEPT !.pc = Propagate(RecursionLimitExceeded).pc,
                        !.err = Propagate(RecursionLimitExceeded).err,
                        !.stack = rest]
        ELSE [rs EXCEPT !.pc = "await",
                        !.stack = Append(rest, Frame(child, depth, <<>>)),
                        !.provided_functions = ProvidedFunctions(registry, child)]

\* lines 48 / 106: the return of the innermost call
RouteReturnFunction(rs) ==
    [rs EXCEPT !.stack = SubSeq(@, 1, Len(@) - 1),
               !.pc = IF Len(rs.stack) = 1 THEN "returned" ELSE "loop"]

\* a coroutine runs on without a break until its next await, its return or
\* its exception
RECURSIVE RunToAwait(_, _)
RunToAwait(rs, registry) ==
    IF rs.pc # "loop" THEN rs
    ELSE IF rs.stack[Len(rs.stack)].todo # <<>>
    THEN RunToAwait(RouteCallChild(rs, registry), registry)
    ELSE RunToAwait(RouteReturnFunction(rs), registry)

\* the awaited invoke of route r returns a function declaring k children
RouteOracleReturns(r, k) ==
    /\ routes[r].pc = "await"
    /\ generated_function_defs' = Register(generated_function_defs, RouteTopFrame(r).fn)
    /\ routes' = [routes EXCEPT ![r] =
                     RunToAwait([@ EXCEPT !.pc = "loop",
                                          !.stack[Len(routes[r].stack)].todo =
                                               Children(RouteTopFrame(r).fn, k),
                                          !.registered = @ \cup {RouteTopFrame(r).fn},
                                          !.declared = @ + k],
                                generated_function_defs')]

\* the awaited invoke of route r raises
RouteOracleFails(r) ==
    /\ routes[r].pc = "await"
    /\ routes' = [routes EXCEPT ![r] =
                     [@ EXCEPT !.pc = Propagate(OracleOutputInvalid).pc,
                               !.err = Propagate(OracleOutputInvalid).err]]
    /\ UNCHANGED generated_function_defs

(***************************************************************************)
(* Param.check_param_type (gen_branching_graph.py 25-53).  A type tag is   *)
(* the sequence of its tokens: a type name, "[", "]", or "x" for any other *)
(* text; the string is their concatenation, and no two of these tokens run *)
(* together into another one.                                              *)
(***************************************************************************)
basic_types ==
    { "bool", "int", "float", "complex", "str", "bytes", "tuple", "list", "dict",
      "set", "frozenset" }

TagTokens == { "int", "str", "list", "set", "tuple", "dict", "[", "]", "x" }

ShortTags == SeqsUpTo(TagTokens, MaxTagLen)

\* the tags up to MaxTagLen tokens, and each of them as the element of a container
TypeTags ==
    ShortTags \cup { <<c, "[">> \o t \o <<"]">> : c \in {"list", "set", "tuple"},
                                                 t \in ShortTags }

\* v in basic_types
InBasicTypes(v) == Len(v) = 1 /\ v[1] \in basic_types

\* v.startswith(c + "[")
StartsWithContainer(v, c) == Len(v) >= 2 /\ v[1] = c /\ v[2] = "["

\* v.split("[")[1]: the text between the first "[" and the next one or the end
RECURSIVE UpToBracket(_)
UpToBracket(v) ==
    IF v = <<>> \/ Head(v) = "[" THEN <<>> ELSE <<Head(v)>> \o UpToBracket(Tail(v))

SplitSecond(v) == UpToBracket(SubSeq(v, Len(UpToBracket(v)) + 2, Len(v)))

\* str.rstrip("]")
RECURSIVE RStripBracket(_)
RStripBracket(v) ==
    IF v # <<>> /\ v[Len(v)] = "]" THEN RStripBracket(SubSeq(v, 1, Len(v) - 1)) ELSE v

ContainedType(v) == RStripBracket(SplitSecond(v))

\* TRUE when the validator returns v, FALSE when it raises ValueError
CheckParamTypeResult(v) ==
    \/ InBasicTypes(v)
    \/ /\ \/ StartsWithContainer(v, "list")
          \/ StartsWithContainer(v, "set")
          \/ StartsWithContainer(v, "tuple")
       /\ InBasicTypes(ContainedType(v))

ParamIdle == param_type = <<>> /\ validated = "pending"

ParamInit == param_type \in TypeTags /\ validated = "pending"

CheckParamType ==
    /\ validated = "pending"
    /\ validated' = IF CheckParamTypeResult(param_type) THEN "accepted" ELSE "rejected"
    /\ UNCHANGED param_type

(***************************************************************************)
(* The specifications.                                                     *)
(***************************************************************************)
InitDag == DagInit /\ NormIdle /\ DevIdle /\ oracle = "any" /\ RoutesIdle /\ ParamIdle
NextDag ==
    \/ /\ ret.op \in {"none", "add_node"}
       /\ \E node_name \in NodeNames, node \in Nodes : AddNode(node_name, node)
       /\ UNCHANGED exceptDag
    \/ /\ ret.op \in {"none", "add_node"}
       /\ \E ep \in ExecutionPaths : CompileGraph(ep)
       /\ UNCHANGED exceptDag
    \/ /\ ret.op = "none"
       /\ \E packages \in PackageLists : GenerateRequirements(packages)
       /\ UNCHANGED exceptDag
SpecDag == InitDag /\ [][NextDag]_vars

InitNorm == DagInit /\ NormInit /\ DevIdle /\ oracle = "any" /\ RoutesIdle /\ ParamIdle
NextNorm ==
    \/ NormalizeOnce /\ UNCHANGED exceptNorm
    \/ NormalizeTwice /\ UNCHANGED exceptNorm
SpecNorm == InitNorm /\ [][NextNorm]_vars

InitDev == DagInit /\ NormIdle /\ DevIdle /\ oracle \in OracleKinds /\ RoutesIdle /\ ParamIdle
NextDev ==
    \/ DevelopRoute /\ UNCHANGED exceptDev
    \/ (\E k \in ChildCounts : OracleReturns(k)) /\ UNCHANGED exceptDev
    \/ OracleFails /\ UNCHANGED exceptDev
    \/ CallChild /\ UNCHANGED exceptDev
    \/ ReturnFunction /\ UNCHANGED exceptDev
SpecDev == InitDev /\ [][NextDev]_vars

\* Once develop_route has been called, the event loop resumes the coroutine
\* whenever it can run, and the oracle answers every invocation (it returns a
\* function or fails).
DevRun ==
    \/ (\E k \in ChildCounts : OracleReturns(k)) /\ UNCHANGED exceptDev
    \/ OracleFails /\ UNCHANGED exceptDev
    \/ CallChild /\ UNCHANGED exceptDev
    \/ ReturnFunction /\ UNCHANGED exceptDev
SpecDevFair == SpecDev /\ WF_vars(DevRun)

InitRoutes == DagInit /\ NormIdle /\ DevIdle /\ oracle = "any" /\ RoutesIdle /\ ParamIdle
NextRoutes ==
    \/ (\E r \in Routes : RouteDevelopRoute(r)) /\ UNCHANGED exceptRoutes
    \/ (\E r \in Routes : \E k \in RouteChildCounts(r) : RouteOracleReturns(r, k))
           /\ UNCHANGED exceptRoutes
    \/ (\E r \in Routes : RouteOracleFails(r)) /\ UNCHANGED exceptRoutes
SpecRoutes == InitRoutes /\ [][NextRoutes]_vars

InitParam == DagInit /\ NormIdle /\ DevIdle /\ oracle = "any" /\ RoutesIdle /\ ParamInit
NextParam == CheckParamType /\ UNCHANGED exceptParam
SpecParam == InitParam /\ [][NextParam]_vars

(***************************************************************************)
(* Properties of the graph builder and compiler, checked under SpecDag.    *)
(***************************************************************************)
Vertices(g) == Range(g.order)

Successors(g, S) == { e.dst : e \in { d \in g.edges : d.src \in S } }

RECURSIVE Reach(_, _)
Reach(g, S) ==
    LET T == S \cup Successors(g, S) IN IF T = S THEN S ELSE Reach(g, T)

\* some vertex is reached from itself along one or more edges
HasCycle(g) == \E n \in Vertices(g) : n \in Reach(g, Successors(g, {n}))

Starts(g) == { n \in Vertices(g) : IsStartName(n) }
Ends(g) == { n \in Vertices(g) : IsEndName(n) }

\* the outputs <<u, j>> of vertices with an edge into v that equal the parameter
UpstreamOutputs(g, v, param) ==
    { uj \in Vertices(g) \X (1..2) :
        /\ uj[2] \in DOMAIN g.node[uj[1]].output_params
        /\ g.node[uj[1]].output_params[uj[2]] = param
        /\ \E e \in g.edges : e.src = uj[1] /\ e.dst = v }

SatisfiedOnce(g, v) ==
    \A i \in DOMAIN g.node[v].input_params :
        Cardinality(UpstreamOutputs(g, v, g.node[v].input_params[i])) = 1

ValidNodeSet(g) ==
    /\ ~HasCycle(g)
    /\ Cardinality(Starts(g)) = 1
    /\ Cardinality(Ends(g)) = 1
    /\ \A v \in Vertices(g) \ Starts(g) : SatisfiedOnce(g, v)

EmissionsOf(kind, n) ==
    { i \in DOMAIN graph_script : graph_script[i].kind = kind /\ graph_script[i].node = n }

EmissionsInOrder ==
    /\ Cardinality(UNION { EmissionsOf("request_to_code", n) : n \in Vertices(graph) }) = 1
    /\ Cardinality(UNION { EmissionsOf("response_to_code", n) : n \in Vertices(graph) }) = 1
    /\ \A n \in Vertices(graph) :
          IsInteriorName(n) => Cardinality(EmissionsOf("to_code", n)) = 1
    /\ \A e \in graph.edges :
          \E i, j \in DOMAIN graph_script :
              /\ graph_script[i].node = e.src
              /\ graph_script[j].node = e.dst
              /\ i < j

IsPython(lines) == ParseStmts(lines) # ParseError

\* C1 as stated: compile_graph of a valid node set (acyclic, one start, one
\* end, every input of a non-start node satisfied by exactly one upstream
\* output) whose nodes carry Python code succeeds, with one start emission,
\* one end emission, one emission per interior node, producers first.
C1_ValidNodeSetCompiles ==
    (ret.op = "compile_graph" /\ ValidNodeSet(graph) /\ IsPython(python_file))
        => (ret.status = OK /\ fd # <<>> /\ EmissionsInOrder)

\* C2: compile_graph of a graph with a cycle (a self-loop included) fails with
\* NotADAG before it visits a node: no FunctionData, no emission, no code, no
\* requirement.
C2_CycleIsNotADAG ==
    (ret.op = "compile_graph" /\ HasCycle(graph))
        => /\ ret.status = NotADAG
           /\ fd = <<>>
           /\ visited = <<>>
           /\ graph_script = <<>>
           /\ python_file = <<>>
           /\ requirements = <<>>
           /\ requirements_txt = <<>>

C2_Witness ==
    /\ ret.op = "compile_graph"
    /\ ret.status = NotADAG
    /\ \E e \in graph.edges : e.src = e.dst

\* an input parameter of the node that no output of a vertex of g equals
HasUnprovidedInput(g, node) ==
    \E i \in DOMAIN node.input_params :
        \A v \in Vertices(g) :
            \A j \in DOMAIN g.node[v].output_params :
                g.node[v].output_params[j] # node.input_params[i]

\* C3 as stated: add_node of a node with an input that no output of an
\* existing vertex matches fails with MissingDependency and leaves the graph
\* with the vertices and edges it had.
C3_UnprovidedInputIsRefused ==
    [][(ret'.op = "add_node" /\ call' # <<>> /\ HasUnprovidedInput(graph, call'[1].node))
            => (ret'.status = MissingDependency /\ graph' = graph)]_vars

\* C3, as the code has it: on a graph that already has a vertex, add_node of a
\* node with an input that no output of an existing vertex matches fails with
\* MissingDependency and leaves the graph with the vertices and edges it had.
\* (On an empty graph every node is accepted as the root.)
C3_UnprovidedInputIsRefusedOnNonEmptyGraph ==
    [][(/\ ret'.op = "add_node"
        /\ call' # <<>>
        /\ graph.order # <<>>
        /\ HasUnprovidedInput(graph, call'[1].node))
            => (ret'.status = MissingDependency /\ graph' = graph)]_vars

C3_Witness ==
    /\ ret.op = "add_node"
    /\ ret.status = MissingDependency
    /\ graph.order # <<>>
    /\ call # <<>>
    /\ HasUnprovidedInput(graph, call[1].node)
    /\ \E i \in DOMAIN call[1].node.input_params :
          ~HasUnprovidedInput(graph, [call[1].node EXCEPT
                                        !.input_params = <<call[1].node.input_params[i]>>])

PackageNameSet(packages) == { packages[i].package_name : i \in DOMAIN packages }

FirstReference(packages, package) ==
    packages[CHOOSE i \in DOMAIN packages :
                /\ packages[i].package_name = package
                /\ \A j \in 1..(i - 1) : packages[j].package_name # package]

\* C5: generate_requirements_txt returns one line per distinct package name,
\* the line made of the (version, specifier) of the first reference to the
\* package; in compile_graph the references are the required_packages of the
\* nodes, concatenated in the order the nodes were visited.
C5_OneLinePerPackageFirstReference ==
    (ret.op = "generate_requirements_txt"
        \/ (ret.op = "compile_graph" /\ ret.status \in {OK, UnparsableSource}))
        => /\ Len(requirements_txt) = Cardinality(PackageNameSet(requirements))
           /\ \A n \in PackageNameSet(requirements) :
                 /\ Cardinality({ i \in DOMAIN requirements_txt :
                                    requirements_txt[i][1] = n }) = 1
                 /\ \E i \in DOMAIN requirements_txt :
                       requirements_txt[i] =
                           Requirement(n, FirstReference(requirements, n).version,
                                       FirstReference(requirements, n).specifier)
           /\ ret.op = "compile_graph" =>
                 /\ requirements = Flatten([i \in DOMAIN visited |->
                                               RequiredPackages(visited[i])])
                 /\ fd # <<>> => fd[1].requirements_txt = requirements_txt

C5_Witness ==
    /\ ret.op = "compile_graph"
    /\ ret.status = OK
    /\ \E i, j \in DOMAIN requirements :
          /\ i < j
          /\ requirements[i].package_name = requirements[j].package_name
          /\ requirements[i].version # requirements[j].version
    /\ Len(requirements_txt) < Len(requirements)

\* the edges into v from a vertex that has the parameter among its outputs
SatisfyingEdges(g, v, param) ==
    { e \in g.edges :
        /\ e.dst = v
        /\ \E j \in DOMAIN g.node[e.src].output_params :
              g.node[e.src].output_params[j] = param }

\* C6 as stated, but for the inputs of the first vertex (the root, which
\* add_node accepts on an empty graph whatever it declares): after successful
\* add_node calls from the empty graph the graph is acyclic and every declared
\* input of every other vertex is satisfied by exactly one incoming edge.
C6_AcyclicAndSatisfiedOnce ==
    (ret.op \in {"none", "add_node"} /\ ret.status = OK)
        => /\ ~HasCycle(graph)
           /\ \A v \in { graph.order[k] : k \in 2..Len(graph.order) } :
                 \A i \in DOMAIN graph.node[v].input_params :
                     Cardinality(SatisfyingEdges(graph, v,
                                                 graph.node[v].input_params[i])) = 1

BadShape(g) == Cardinality(Starts(g)) # 1 \/ Cardinality(Ends(g)) # 1

\* C7 as stated: compile_graph of a graph with no start node, no end node,
\* several start nodes or several end nodes fails with InvalidGraphShape and
\* returns no FunctionData.
C7_BadShapeIsRefused ==
    (ret.op = "compile_graph" /\ BadShape(graph))
        => (ret.status = InvalidGraphShape /\ fd = <<>>)

\* C9 as stated: when the style pass cannot parse the assembled code,
\* compile_graph still returns a FunctionData, its code the assembled unit as
\* it was before normalization.
C9_UnparsableSourceIsPassedThrough ==
    (/\ ret.op = "compile_graph"
     /\ Len(visited) = Len(graph.order)
     /\ ~HasCycle(graph)
     /\ ~Normalize(python_file).ok)
        => (fd # <<>> /\ fd[1].code = python_file)

\* what the route-name rule makes of one character
NormalizedChar(c) ==
    IF c \in {" ", "-"} THEN <<"_">>
    ELSE IF c = "/" THEN <<>>
    ELSE <<LowerChar(c)>>

\* spaces and hyphens to underscores, slashes removed, lower case
NormalizedRouteName(name) == Flatten([i \in DOMAIN name |-> NormalizedChar(name[i])])

RequestSuffix == <<"_", "r", "e", "q", "u", "e", "s", "t">>

\* the route compile_graph was called for
CompiledRoute == CHOOSE ep \in ExecutionPaths : ep.endpoint_name = fd[1].endpoint_name

StartEmissions == { i \in DOMAIN graph_script : graph_script[i].kind = "request_to_code" }

\* C13 as stated: the function_name of the FunctionData is the route name with
\* spaces and hyphens replaced by underscores, slashes removed and letters
\* lower-cased, followed by "_request", and the start node is emitted under it.
C13_FunctionNameIsNormalizedRouteName ==
    (ret.op = "compile_graph" /\ fd # <<>>)
        => /\ fd[1].function_name = NormalizedRouteName(CompiledRoute.name) \o RequestSuffix
           /\ \A i \in StartEmissions : graph_script[i].name = fd[1].function_name

\* C13, as the code has it: after the replacements and before the lower-casing
\* the whitespace left at either end of the name (tabs, newlines: the spaces
\* are underscores by then) is stripped as well.
C13_FunctionNameIsStrippedNormalizedRouteName ==
    (ret.op = "compile_graph" /\ fd # <<>>)
        => /\ fd[1].function_name =
                 Strip(NormalizedRouteName(CompiledRoute.name)) \o RequestSuffix
           /\ \A i \in StartEmissions : graph_script[i].name = fd[1].function_name

C13_Witness ==
    /\ ret.op = "compile_graph"
    /\ fd # <<>>
    /\ StartEmissions # {}
    /\ Contains(CompiledRoute.name, "\t")
    /\ Contains(CompiledRoute.name, "/")

\* the connection_type of an edge, as the characters of the string
LabelText(e) == <<e.connection_type>>

\* C14 as stated: a successful add_node on a graph with a vertex makes the
\* node a vertex, adds for every input of the node an edge from a vertex that
\* has the matching output to the node, labeled with the name of the
\* parameter, and leaves the vertices and edges there were as they were.
C14_OneLabeledEdgePerMatchedKey ==
    [][(/\ ret'.op = "add_node"
        /\ ret'.status = OK
        /\ call' # <<>>
        /\ graph.order # <<>>)
            => LET node == call'[1].node
                   node_name == call'[1].node_name
               IN  /\ node_name \in Vertices(graph')
                   /\ graph'.node[node_name] = node
                   /\ \A i \in DOMAIN node.input_params :
                         \E e \in graph'.edges :
                             /\ e.dst = node_name
                             /\ LabelText(e) = node.input_params[i].name
                             /\ \E j \in DOMAIN graph.node[e.src].output_params :
                                   graph.node[e.src].output_params[j] =
                                       node.input_params[i]
                   /\ graph.edges \subseteq graph'.edges
                   /\ \A v \in Vertices(graph) \ {node_name} :
                         graph'.node[v] = graph.node[v]]_vars

\* C15 as stated: on a graph with a vertex, add_node fails with
\* MissingDependency exactly when an input of the node is matched by no output
\* of an existing vertex; otherwise (no input at all, or a key declared twice,
\* included) it succeeds.
C15_FailsExactlyWhenAnInputIsUnprovided ==
    [][(ret'.op = "add_node" /\ call' # <<>> /\ graph.order # <<>>)
            => /\ HasUnprovidedInput(graph, call'[1].node)
                     => ret'.status = MissingDependency
               /\ ~HasUnprovidedInput(graph, call'[1].node) => ret'.status = OK]_vars

\* the vertices of g that have the parameter among their outputs
Matching(g, param) ==
    { v \in Vertices(g) :
        \E j \in DOMAIN g.node[v].output_params : g.node[v].output_params[j] = param }

\* the one of them that the scan of the vertices meets last
LastMatching(g, param) ==
    g.order[CHOOSE i \in DOMAIN g.order :
                /\ g.order[i] \in Matching(g, param)
                /\ \A k \in (i + 1)..Len(g.order) : g.order[k] \notin Matching(g, param)]

Ambiguous(g, node) ==
    \E i \in DOMAIN node.input_params : Cardinality(Matching(g, node.input_params[i])) > 1

\* on success every input is bound to the last matching vertex, and an edge
\* is added from no other vertex
BoundToLastMatching(g, h, node_name, node) ==
    /\ \A i \in DOMAIN node.input_params :
          \E e \in h.edges :
              e.src = LastMatching(g, node.input_params[i]) /\ e.dst = node_name
    /\ \A e \in h.edges \ g.edges :
          /\ e.dst = node_name
          /\ \E i \in DOMAIN node.input_params :
                e.src = LastMatching(g, node.input_params[i])

\* C16 as stated: when several vertices have an output with a key the node
\* needs, add_node does not fail, binds the key to the matching vertex that is
\* last in the scan order and adds no edge from the other matching vertices.
C16_AmbiguityNeverFails ==
    [][(/\ ret'.op = "add_node"
        /\ call' # <<>>
        /\ graph.order # <<>>
        /\ Ambiguous(graph, call'[1].node))
            => /\ ret'.status = OK
               /\ BoundToLastMatching(graph, graph', call'[1].node_name,
                                      call'[1].node)]_vars

\* C16, as the code has it: the ambiguity is no reason to fail.  When every
\* input of the node has a matching vertex and no key is declared twice the
\* insert succeeds, and whenever it succeeds every key is bound to the matching
\* vertex that is last in the scan order, with no edge added from another one.
C16_LastMatchingVertexWins ==
    [][(/\ ret'.op = "add_node"
        /\ call' # <<>>
        /\ graph.order # <<>>
        /\ Ambiguous(graph, call'[1].node))
            => LET node == call'[1].node
               IN  /\ (/\ ~HasUnprovidedInput(graph, node)
                       /\ Cardinality(Range(node.input_params)) = Len(node.input_params))
                          => ret'.status = OK
                   /\ ret'.status = OK
                          => BoundToLastMatching(graph, graph', call'[1].node_name, node)
                   /\ ret'.status # OK
                          => ret'.status = MissingDependency /\ graph' = graph]_vars

C16_Witness ==
    /\ ret.op = "add_node"
    /\ ret.status = OK
    /\ call # <<>>
    /\ Len(graph.order) = 3
    /\ graph.order[3] = call[1].node_name
    /\ \E i \in DOMAIN call[1].node.input_params :
          /\ {graph.order[1], graph.order[2]} \subseteq
                 Matching(graph, call[1].node.input_params[i])
          /\ \E e \in graph.edges : e.src = graph.order[2] /\ e.dst = graph.order[3]
          /\ ~\E e \in graph.edges : e.src = graph.order[1] /\ e.dst = graph.order[3]

(***************************************************************************)
(* Properties of the normalizer, checked under SpecNorm.                   *)
(***************************************************************************)
\* C8 as stated: for a source unit x that is Python,
\* normalize(normalize(x)) = normalize(x).
C8_NormalizeIsIdempotent ==
    (npc = "twice" /\ IsPython(file_content)) => renormalized = normalized

(***************************************************************************)
(* Properties of the decomposition driver, checked under SpecDev.          *)
(***************************************************************************)
\* the children some call has been handed and has not yet called
PendingSiblings == UNION { Range(stack[i].todo) : i \in DOMAIN stack }

\* C4 as stated: with the ceiling 3 and an oracle that always returns one
\* child, the 4th nested call (or an earlier one) fails with
\* RecursionLimitExceeded, so no function nested 4 deep reaches the oracle, and
\* the function of the call the guard trips on is neither handed to the oracle
\* nor recorded in the registry.
C4_GuardTripsByFourthNestedCall ==
    oracle = "one_child"
        => /\ \A f \in invoked : Len(f) < 4
           /\ tripped # <<>> =>
                 /\ err = RecursionLimitExceeded
                 /\ tripped[1] \notin invoked
                 /\ ~Contains(generated_function_defs, tripped[1])

\* C10 as stated: once the guard has tripped and develop_route has ended,
\* develop_route has returned the top-level function and the siblings that
\* were still to be decomposed have been handed to the oracle.
C10_OnlyTheBranchIsAbandoned ==
    (tripped # <<>> /\ dev_pc \in {"returned", "raised"})
        => /\ dev_pc = "returned"
           /\ returned = <<TopFunction>>
           /\ PendingSiblings \subseteq invoked

\* C10, as the code has it: a trip of the guard ends the whole route.
\* develop_route raises RecursionLimitExceeded and returns no function, and
\* the siblings its ancestors had still to decompose never reach the oracle.
C10_GuardTripEndsTheRoute ==
    tripped # <<>>
        => /\ dev_pc = "raised"
           /\ err = RecursionLimitExceeded
           /\ returned = <<>>
           /\ PendingSiblings \cap invoked = {}
           /\ tripped[1] \notin invoked

C10_Witness ==
    /\ tripped # <<>>
    /\ dev_pc = "raised"
    /\ err = RecursionLimitExceeded
    /\ PendingSiblings # {}

(***************************************************************************)
(* Properties of concurrent routes, checked under SpecRoutes.              *)
(***************************************************************************)
\* C11 as stated: however two develop_route calls interleave at their awaits,
\* no oracle invocation of a route is given a function the other route
\* registered, and a route that is still running finds in the registry every
\* entry it has registered itself.
C11_NoCrossRouteLeakage ==
    \A r \in Routes :
        /\ \A i \in DOMAIN routes[r].provided_functions :
              RouteOf(routes[r].provided_functions[i]) = r
        /\ routes[r].pc = "await"
              => routes[r].registered \subseteq Range(generated_function_defs)

(***************************************************************************)
(* Properties of the Param validator, checked under SpecParam.             *)
(***************************************************************************)
\* a primitive type, or one container of one primitive type
IsPrimitiveOrContainerOfPrimitive(v, containers) ==
    \/ InBasicTypes(v)
    \/ /\ Len(v) = 4
       /\ v[1] \in containers
       /\ v[2] = "["
       /\ v[3] \in basic_types
       /\ v[4] = "]"

\* C12 as stated: the validator accepts a tag only if it is a primitive type
\* or a single-level container (of any container type) of a primitive type,
\* and it accepts every primitive type and every list, set or tuple of one.
C12_AcceptedExactlyWhenWellFormed ==
    validated # "pending"
        => /\ validated = "accepted"
                => IsPrimitiveOrContainerOfPrimitive(param_type,
                        {"tuple", "list", "dict", "set", "frozenset"})
           /\ IsPrimitiveOrContainerOfPrimitive(param_type, {"list", "set", "tuple"})
                => validated = "accepted"

\* the function that declared f; whether f is p or lies in the subtree of p
Parent(f) == SubSeq(f, 1, Len(f) - 1)
InSubtree(f, p) == Len(p) <= Len(f) /\ SubSeq(f, 1, Len(p)) = p

RECURSIVE SumTodo(_)
SumTodo(frames) ==
    IF frames = <<>> THEN 0 ELSE Len(Head(frames).todo) + SumTodo(Tail(frames))

\* C17: the oracle invocations of one develop_route call are made one at a
\* time, depth first.  The calls in progress form one chain from the top-level
\* function down; every declared function has been handed to the oracle or is
\* still waiting in the loop of a call in progress; when a function is handed
\* to the oracle every earlier sibling has been, and the calls of its whole
\* subtree have returned; and develop_route returns only when no call is in
\* progress and every declared function has been handed to the oracle.
C17_SequentialDepthFirst ==
    err = "none"
        => /\ \A i \in 2..Len(stack) : Parent(stack[i].fn) = stack[i - 1].fn
           /\ \A i \in DOMAIN stack :
                 \A j \in DOMAIN stack[i].todo :
                     /\ Parent(stack[i].todo[j]) = stack[i].fn
                     /\ stack[i].todo[j] \notin invoked
           /\ Cardinality(invoked) + SumTodo(stack) = declared + Cardinality({dev_pc} \ {"idle"})
           /\ \A g \in invoked \ {TopFunction} :
                 \A k \in 1..(g[Len(g)] - 1) :
                     LET earlier == Parent(g) \o <<k>>
                     IN  /\ earlier \in invoked
                         /\ \A i \in DOMAIN stack :
                               /\ ~InSubtree(stack[i].fn, earlier)
                               /\ \A j \in DOMAIN stack[i].todo :
                                     ~InSubtree(stack[i].todo[j], earlier)
           /\ dev_pc = "returned"
                 => /\ stack = <<>>
                    /\ returned = <<TopFunction>>
                    /\ Cardinality(invoked) = declared + 1

C17_Witness ==
    /\ dev_pc = "returned"
    /\ err = "none"
    /\ <<1, 1>> \in invoked
    /\ <<1, 2>> \in invoked
    /\ <<2>> \in invoked

DevDone == dev_pc \in {"returned", "raised"}

\* C18: develop_route terminates.  The calls in progress never nest deeper
\* than develop_route and RECURSION_DEPTH_LIMIT + 1 recursive calls below it,
\* whatever the oracle declares; and when the oracle answers every invocation,
\* a develop_route call that was made ends: it returns the top-level function
\* with no call left in progress, or it raises.
C18_DevelopRouteTerminates ==
    /\ [](Len(stack) <= RECURSION_DEPTH_LIMIT + 2)
    /\ [](DevDone => \/ dev_pc = "returned" /\ returned = <<TopFunction>> /\ stack = <<>>
                     \/ dev_pc = "raised" /\ err # "none" /\ returned = <<>>)
    /\ (dev_pc # "idle") ~> DevDone

\* every function the oracle returned declared a child, and the route ended
C18_Witness ==
    /\ oracle = "one_child"
    /\ DevDone
    /\ Len(generated_function_defs) = RECURSION_DEPTH_LIMIT + 2
    /\ declared = Cardinality(invoked)

OracleFailed == err = OracleOutputInvalid

\* C19: a failure of an oracle invocation, top-level or nested, is neither
\* swallowed nor retried.  As soon as an invocation has failed develop_route
\* has raised that failure and returns no function, the failed function is not
\* recorded, and from then on the route hands nothing more to the oracle: the
\* siblings still waiting in the loops of the enclosing calls stay uncalled.
C19_OracleFailurePropagates ==
    /\ [](OracleFailed
            => /\ dev_pc = "raised"
               /\ returned = <<>>
               /\ stack # <<>>
               /\ TopFrame.fn \in invoked
               /\ ~Contains(generated_function_defs, TopFrame.fn)
               /\ PendingSiblings \cap invoked = {})
    /\ [][OracleFailed => /\ invoked' = invoked
                          /\ generated_function_defs' = generated_function_defs
                          /\ dev_pc' = "raised"
                          /\ OracleFailed']_vars

\* a nested invocation failed while siblings of its ancestors were waiting
C19_Witness ==
    /\ OracleFailed
    /\ dev_pc = "raised"
    /\ Len(stack) >= 3
    /\ \E i \in 1..(Len(stack) - 1) : stack[i].todo # <<>>

(***************************************************************************)
(* Insertion order, checked under SpecDag.                                 *)
(***************************************************************************)
\* every successful add_node so far inserted a name the graph did not hold
DistinctNames == Len(graph.order) = calls

Position(g, n) == IndexOf(g.order, n)

\* C20: while the names inserted are pairwise distinct, every edge goes from
\* a vertex inserted earlier to one inserted later, so the graph has no cycle
\* and compile_graph does not fail with NotADAG.  An add_node call adds edges
\* only from vertices the graph already held to the vertex it inserts, and it
\* creates a cycle (a self-loop included) only when the name it inserts was
\* already in the graph.
C20_InsertionOrderIsTopological ==
    /\ [](DistinctNames
            => /\ \A e \in graph.edges :
                     Position(graph, e.src) < Position(graph, e.dst)
               /\ ~HasCycle(graph)
               /\ ret.op = "compile_graph" => ret.status # NotADAG)
    /\ [][graph' # graph
            => /\ \A e \in graph'.edges \ graph.edges :
                     /\ e.dst = call'[1].node_name
                     /\ e.src \in Vertices(graph)
               /\ (~HasCycle(graph) /\ HasCycle(graph'))
                     => call'[1].node_name \in Vertices(graph)]_vars

C20_Witness ==
    /\ DistinctNames
    /\ Len(graph.order) = 3
    /\ Cardinality(graph.edges) = 3
    /\ ret.op = "compile_graph"
    /\ ret.status = OK

\* the depth recursive_create_function is called with for f
DepthOf(f) == Len(f) - 1

Ancestors(f) == { SubSeq(f, 1, n) : n \in 0..(Len(f) - 1) }

\* C21: the guard is evaluated before the oracle is invoked, and the children
\* of the top-level function are called with depth 0.  Every function that
\* recursive_create_function hands to the oracle has a depth in
\* 0..RECURSION_DEPTH_LIMIT, each call in progress carries the depth of its
\* function, and when the guard trips it trips on a function of depth
\* RECURSION_DEPTH_LIMIT + 1 that is not handed to the oracle, after the oracle
\* has returned the top-level function and the RECURSION_DEPTH_LIMIT + 1
\* nested functions above it.
C21_GuardFirstTripsBelowTheCeiling ==
    /\ \A f \in invoked \ {TopFunction} : DepthOf(f) \in 0..RECURSION_DEPTH_LIMIT
    /\ \A i \in DOMAIN stack : stack[i].depth = DepthOf(stack[i].fn)
    /\ tripped # <<>>
          => /\ DepthOf(tripped[1]) = RECURSION_DEPTH_LIMIT + 1
             /\ tripped[1] \notin invoked
             /\ ~Contains(generated_function_defs, tripped[1])
             /\ \A a \in Ancestors(tripped[1]) :
                   a \in invoked /\ Contains(generated_function_defs, a)
             /\ Cardinality(Ancestors(tripped[1]) \ {TopFunction})
                   = RECURSION_DEPTH_LIMIT + 1

\* the guard tripped under an oracle free to declare any number of children,
\* with a function of depth RECURSION_DEPTH_LIMIT handed to the oracle before
C21_Witness ==
    /\ oracle = "any"
    /\ tripped # <<>>
    /\ \E f \in invoked : DepthOf(f) = RECURSION_DEPTH_LIMIT /\ f \in Ancestors(tripped[1])
    /\ \E f \in invoked : DepthOf(f) = 0 /\ f \notin Ancestors(tripped[1])

====
